---- MODULE Spec2Model ----
(***************************************************************************)
(* Model of the itinerary construction engine of src/script.py:           *)
(* build_itineraries (permutations x product, dedup on a canonical key,   *)
(* validation by is_valid_itinerary) followed by the ranking done in main. *)
(* Times are seconds since the start of the travel day; prices are whole   *)
(* currency units.                                                         *)
(***************************************************************************)
EXTENDS Integers, Sequences, FiniteSets, TLC

(* ------------------------------ bounds -------------------------------- *)
MaxRows == 2        \* rows in the flight table df
MaxTick == 2        \* departures are at minute 0..MaxTick of the day
MaxPrice == 2       \* prices are 1..MaxPrice
MaxDimes == 3          \* prices of 0.10, 0.20, ... in the priced combinations
MaxRetries == 3      \* max_retries is 0..MaxRetries, or the default
MaxLayover == 1     \* min_city_time_minutes is 0..MaxLayover

(* --------------------------- program constants ------------------------ *)
SecondsPerMinute == 60
DefaultMaxRetries == 5

Cities == <<"A", "B", "C">>
Airlines == {"X"}
Times == {SecondsPerMinute * t : t \in 0..MaxTick}
Prices == 1..MaxPrice

(* None is Python's None for the two optional datetimes; Some(t) is a set one *)
None == <<>>
Some(t) == <<t>>

(* one row of df, as appended by main *)
Flight(al, o, d, dep, arr, p) ==
    [airline |-> al, origin |-> o, destination |-> d,
     departure |-> dep, arrival |-> arr, price |-> p]

(* ------------------------- helpers on sequences ------------------------ *)
Range(s) == {s[i] : i \in DOMAIN s}

RECURSIVE Concat(_)
Concat(ss) == IF ss = <<>> THEN <<>> ELSE Head(ss) \o Concat(Tail(ss))

RemoveAt(s, i) == SubSeq(s, 1, i - 1) \o SubSeq(s, i + 1, Len(s))

(* itertools.permutations: tuples in lexicographic order of positions *)
RECURSIVE permutations(_)
permutations(s) ==
    IF s = <<>> THEN << <<>> >>
    ELSE Concat([i \in 1..Len(s) |->
            LET sub == permutations(RemoveAt(s, i))
            IN [j \in 1..Len(sub) |-> <<s[i]>> \o sub[j]]])

(* itertools.product: the rightmost pool advances fastest *)
RECURSIVE product(_)
product(pools) ==
    IF pools = <<>> THEN << <<>> >>
    ELSE LET n == Len(pools)
             result == product(SubSeq(pools, 1, n - 1))
             pool == pools[n]
         IN Concat([x \in 1..Len(result) |->
                [y \in 1..Len(pool) |-> Append(result[x], pool[y])]])

(* the destination is not compared *)
possible_flights_by_origin(table, origin, destination) ==
    SelectSeq(table, LAMBDA r : r.origin = origin)

(* df[(df['origin'] == origin) & (df['destination'] == destination)] *)
possible_flights(table, origin, destination) ==
    SelectSeq(table, LAMBDA r : r.origin = origin /\ r.destination = destination)

RECURSIVE SumPrices(_)
SumPrices(fc) == IF fc = <<>> THEN 0 ELSE Head(fc).price + SumPrices(Tail(fc))

(* sum(float(flight['price']) for flight in flight_combination) *)
total_price_of(fc) == SumPrices(fc)

(* a key that also tells fares apart *)
itinerary_id_with_price(fc) ==
    [i \in 1..Len(fc) |->
        <<fc[i].airline, fc[i].origin, fc[i].destination,
          fc[i].departure, fc[i].arrival, fc[i].price>>]

(* the tuple of (airline, origin, destination, departure, arrival) per leg *)
itinerary_id_of(fc) ==
    [i \in 1..Len(fc) |->
        <<fc[i].airline, fc[i].origin, fc[i].destination,
          fc[i].departure, fc[i].arrival>>]

(* a minimum that is itself reached counts as too short *)
LayoverTooShortInclusive(current_flight, next_flight, minutes) ==
    (next_flight.departure - current_flight.arrival) <= minutes * SecondsPerMinute

(* the layover is looked at only when a minimum is asked for *)
LayoverTooShortIfPositive(current_flight, next_flight, minutes) ==
    /\ minutes > 0
    /\ (next_flight.departure - current_flight.arrival) < minutes * SecondsPerMinute

(* layover_time < min_city_time_minutes, with
   layover_time = (next_departure - current_arrival).total_seconds() / 60 *)
LayoverTooShort(current_flight, next_flight, minutes) ==
    (next_flight.departure - current_flight.arrival) < minutes * SecondsPerMinute

(* a first departure at the earliest time itself is turned down *)
is_valid_itinerary_late_start(fc, minutes, ed, la) ==
    IF ed # None /\ Len(fc) = 0 THEN "IndexError"
    ELSE IF ed # None /\ fc[1].departure <= ed[1] THEN "False"
    ELSE IF la # None /\ Len(fc) = 0 THEN "IndexError"
    ELSE IF la # None /\ fc[Len(fc)].arrival > la[1] THEN "False"
    ELSE IF \E i \in 1..(Len(fc) - 1) :
                (fc[i + 1].departure - fc[i].arrival) < minutes * SecondsPerMinute
         THEN "False"
    ELSE "True"

(* is_valid_itinerary: "True", "False", or "IndexError" when a set bound
   indexes an empty flight_combination *)
is_valid_itinerary(fc, minutes, ed, la) ==
    IF ed # None /\ Len(fc) = 0 THEN "IndexError"
    ELSE IF ed # None /\ fc[1].departure < ed[1] THEN "False"
    ELSE IF la # None /\ Len(fc) = 0 THEN "IndexError"
    ELSE IF la # None /\ fc[Len(fc)].arrival > la[1] THEN "False"
    ELSE IF \E i \in 1..(Len(fc) - 1) : LayoverTooShort(fc[i], fc[i + 1], minutes)
         THEN "False"
    ELSE "True"

(* an equal price goes in front of the ones already placed *)
RECURSIVE InsertByPriceBeforeEqual(_, _)
InsertByPriceBeforeEqual(sorted, it) ==
    IF sorted = <<>> THEN <<it>>
    ELSE IF Head(sorted).total_price < it.total_price
         THEN <<Head(sorted)>> \o InsertByPriceBeforeEqual(Tail(sorted), it)
         ELSE <<it>> \o sorted

(* sorted(final_itineraries, key=lambda x: x["total_price"]): stable *)
RECURSIVE InsertByPrice(_, _)
InsertByPrice(sorted, it) ==
    IF sorted = <<>> THEN <<it>>
    ELSE IF Head(sorted).total_price <= it.total_price
         THEN <<Head(sorted)>> \o InsertByPrice(Tail(sorted), it)
         ELSE <<it>> \o sorted

RECURSIVE sorted_by_price(_)
sorted_by_price(its) ==
    IF its = <<>> THEN <<>>
    ELSE InsertByPrice(sorted_by_price(SubSeq(its, 1, Len(its) - 1)), its[Len(its)])

(* ---------------- binary64 arithmetic on decimal prices ---------------- *)
(* A float is a sign and a magnitude; the magnitude is a natural number of
   units of 2^-FracBits, written as its bits, least significant first, with
   no leading zero. Every price of at least one cent, and every sum and
   rounding error met while adding a few of them, is a whole number of units. *)
MantissaBits == 53
FracBits == MantissaBits + 17

RECURSIVE NatBits(_)
NatBits(n) == IF n = 0 THEN <<>> ELSE <<n % 2>> \o NatBits(n \div 2)

RECURSIVE Norm(_)
Norm(x) ==
    IF x = <<>> THEN <<>>
    ELSE IF x[Len(x)] = 0 THEN Norm(SubSeq(x, 1, Len(x) - 1)) ELSE x

Rest(x) == IF x = <<>> THEN <<>> ELSE Tail(x)
Low(x) == IF x = <<>> THEN 0 ELSE Head(x)

RECURSIVE AddBits(_, _, _)
AddBits(a, b, carry) ==
    IF a = <<>> /\ b = <<>> THEN (IF carry = 1 THEN <<1>> ELSE <<>>)
    ELSE LET s == Low(a) + Low(b) + carry
         IN <<s % 2>> \o AddBits(Rest(a), Rest(b), s \div 2)

(* a - b for a >= b *)
RECURSIVE SubBits(_, _, _)
SubBits(a, b, borrow) ==
    IF a = <<>> THEN <<>>
    ELSE LET s == Low(a) - Low(b) - borrow
         IN <<s % 2>> \o SubBits(Rest(a), Rest(b), IF s < 0 THEN 1 ELSE 0)

(* a >= b on magnitudes of equal length, compared from bit i downwards *)
RECURSIVE GeqFrom(_, _, _)
GeqFrom(a, b, i) ==
    IF i = 0 THEN TRUE
    ELSE IF a[i] # b[i] THEN a[i] > b[i]
    ELSE GeqFrom(a, b, i - 1)

GeqBits(a, b) ==
    IF Len(a) # Len(b) THEN Len(a) > Len(b) ELSE GeqFrom(a, b, Len(a))

(* round to nearest, ties to even, at MantissaBits significant bits; sticky
   tells that the exact value lies above x by less than one unit *)
RoundBits(x, sticky) ==
    IF Len(x) <= MantissaBits THEN x
    ELSE LET d == Len(x) - MantissaBits
             kept == SubSeq(x, d + 1, Len(x))
             guard == x[d]
             below == sticky \/ \E i \in 1..(d - 1) : x[i] = 1
             up == guard = 1 /\ (below \/ kept[1] = 1)
             r == IF up THEN AddBits(kept, <<1>>, 0) ELSE kept
         IN [i \in 1..d |-> 0] \o r

FloatOf(neg, mag) == [neg |-> neg /\ mag # <<>>, mag |-> mag]
Zero == FloatOf(FALSE, <<>>)
Negate(f) == FloatOf(~f.neg, f.mag)

(* the exact sum of two floats *)
ExactAdd(f, g) ==
    IF f.neg = g.neg THEN FloatOf(f.neg, AddBits(f.mag, g.mag, 0))
    ELSE IF GeqBits(f.mag, g.mag) THEN FloatOf(f.neg, Norm(SubBits(f.mag, g.mag, 0)))
    ELSE FloatOf(g.neg, Norm(SubBits(g.mag, f.mag, 0)))

(* f + g and f - g in binary64 *)
FloatAdd(f, g) == LET e == ExactAdd(f, g) IN FloatOf(e.neg, RoundBits(e.mag, FALSE))
FloatSub(f, g) == FloatAdd(f, Negate(g))

RECURSIVE Reverse(_)
Reverse(x) == IF x = <<>> THEN <<>> ELSE Append(Reverse(Tail(x)), Head(x))

(* the first k binary digits of r/100, r < 100, most significant first *)
RECURSIVE FractionDigits(_, _)
FractionDigits(r, k) ==
    IF k = 0 THEN <<>>
    ELSE <<(2 * r) \div 100>> \o FractionDigits((2 * r) % 100, k - 1)

RECURSIVE FractionRest(_, _)
FractionRest(r, k) ==
    IF k = 0 \/ r = 0 THEN r ELSE FractionRest((2 * r) % 100, k - 1)

(* float(price_str.replace('$', '')) for a price of c cents written in
   decimal: the binary64 value nearest to c/100 *)
FloatOfCents(c) ==
    LET exact == Norm(Reverse(FractionDigits(c % 100, FracBits)) \o NatBits(c \div 100))
    IN FloatOf(FALSE, RoundBits(exact, FractionRest(c % 100, FracBits) # 0))

(* sum(...) of line 162 starts from the integer 0 and takes the prices one
   after the other. acc is the running state of that loop: f_result the
   running total, c the rounding errors collected so far. *)
SumStart == [f_result |-> Zero, c |-> Zero]

(* an interpreter that adds each price to the running total *)
plain_step(acc, x) == [f_result |-> FloatAdd(acc.f_result, x), c |-> acc.c]

(* an interpreter that also collects what each addition rounded away
   (compensated summation) *)
compensated_step(acc, x) ==
    LET t == FloatAdd(acc.f_result, x)
        lost == IF GeqBits(acc.f_result.mag, x.mag)
                THEN FloatAdd(FloatSub(acc.f_result, t), x)
                ELSE FloatAdd(FloatSub(x, t), acc.f_result)
    IN [f_result |-> t, c |-> FloatAdd(acc.c, lost)]

(* the value sum(...) returns when the prices are used up *)
sum_result(acc) ==
    IF acc.c = Zero THEN acc.f_result ELSE FloatAdd(acc.f_result, acc.c)

(* the exact sum of the price fields of a combination *)
RECURSIVE ExactSum(_)
ExactSum(fc) ==
    IF fc = <<>> THEN Zero ELSE ExactAdd(Head(fc).price, ExactSum(Tail(fc)))

(* ------------------- texts of the provider's errors ------------------- *)
(* A text is the sequence of its characters. *)
UpperCase == <<"A", "B", "C", "D", "E", "F", "G", "H", "I", "J", "K", "L", "M", "N", "O", "P", "Q", "R", "S", "T", "U", "V", "W", "X", "Y", "Z">>
LowerCase == <<"a", "b", "c", "d", "e", "f", "g", "h", "i", "j", "k", "l", "m", "n", "o", "p", "q", "r", "s", "t", "u", "v", "w", "x", "y", "z">>

(* str.lower() *)
LowerChar(ch) ==
    IF \E i \in DOMAIN UpperCase : UpperCase[i] = ch
    THEN LowerCase[CHOOSE i \in DOMAIN UpperCase : UpperCase[i] = ch]
    ELSE ch

lower(text) == [i \in DOMAIN text |-> LowerChar(text[i])]

(* needle in text *)
Contains(text, needle) ==
    \E k \in 0..(Len(text) - Len(needle)) :
        \A i \in DOMAIN needle : text[k + i] = needle[i]

NoTokenProvided == <<"n", "o", " ", "t", "o", "k", "e", "n", " ", "p", "r", "o", "v", "i", "d", "e", "d">>
Timeout == <<"t", "i", "m", "e", "o", "u", "t">>
NoFlightsFound == <<"n", "o", " ", "f", "l", "i", "g", "h", "t", "s", " ", "f", "o", "u", "n", "d">>

(* line 50 *)
Retryable(e) ==
    LET error_str == lower(e)
    IN \/ Contains(error_str, NoTokenProvided)
       \/ Contains(error_str, Timeout)
       \/ Contains(error_str, NoFlightsFound)

(* str(e) of the exceptions get_flights can raise *)
Messages ==
    {<<"N", "o", " ", "t", "o", "k", "e", "n", " ", "p", "r", "o", "v", "i", "d", "e", "d">>,
     <<"R", "e", "a", "d", " ", "T", "I", "M", "E", "O", "U", "T">>,
     <<"N", "o", " ", "f", "l", "i", "g", "h", "t", "s", " ", "f", "o", "u", "n", "d", "!">>,
     <<"t", "i", "m", "e", " ", "o", "u", "t">>,
     <<"H", "T", "T", "P", " ", "5", "0", "0">>,
     <<>>}

(* result.flights of a fetch that succeeds *)
FlightLists == {<<>>, <<"f1">>, <<"f1", "f2">>}

Ok(fl) == [kind |-> "ok", flights |-> fl]
Raised(e) == [kind |-> "error", message |-> e]

(* [(i, j) for i in airports for j in airports if i != j] *)
airport_combinations(aps) ==
    Concat([i \in 1..Len(aps) |->
        SelectSeq([j \in 1..Len(aps) |-> <<aps[i], aps[j]>>],
                  LAMBDA pr : pr[1] # pr[2])])

(* ------------------------------ inputs -------------------------------- *)
(* flights a provider can return for one route; a flight lasts one minute *)
FlightsOn(route, airlines, prices) ==
    {Flight(al, route[1], route[2], dep, dep + SecondsPerMinute, p) :
        al \in airlines, dep \in Times, p \in prices}

(* tables as main builds them: rows grouped by route, in route order *)
RECURSIVE Tables(_, _, _, _)
Tables(routes, n, airlines, prices) ==
    IF routes = <<>> THEN {<<>>}
    ELSE UNION {
        {head \o rest :
            head \in [1..k -> FlightsOn(Head(routes), airlines, prices)],
            rest \in Tables(Tail(routes), n - k, airlines, prices)} : k \in 0..n}

Windows == {None, Some(SecondsPerMinute)} \X {None, Some(2 * SecondsPerMinute)}

Hm(h, m) == (h * 60 + m) * SecondsPerMinute

VARIABLES df, airports, min_city_time_minutes, earliest_departure, latest_arrival,
          pc, perms, perm, combos, itineraries, unique_itineraries, final_itineraries,
          interpreter, leg, acc,
          fpc, max_retries, attempt, outcomes, fetched

vars == <<df, airports, min_city_time_minutes, earliest_departure, latest_arrival,
          pc, perms, perm, combos, itineraries, unique_itineraries, final_itineraries,
          interpreter, leg, acc,
          fpc, max_retries, attempt, outcomes, fetched>>

inputs == <<df, airports, min_city_time_minutes, earliest_departure, latest_arrival>>

(* the sum of line 162 in progress: which summation the interpreter uses, how
   many prices of the combination are added, and the running state *)
adder == <<interpreter, leg, acc>>

Interpreters == {"plain", "compensated"}

(* whole prices add up without rounding under either interpreter *)
NoSum == interpreter = "plain" /\ leg = 0 /\ acc = SumStart

(* one call of get_flights_data: where it stands, its max_retries and attempt,
   what get_flights did at each call so far, and the value returned *)
provider == <<fpc, max_retries, attempt, outcomes, fetched>>

(* the flight table is complete: no call of get_flights_data is running *)
NoFetch ==
    /\ fpc = "idle" /\ max_retries = DefaultMaxRetries /\ attempt = 0
    /\ outcomes = <<>> /\ fetched = None

Start ==
    /\ pc = "perms"
    /\ perms = permutations(airports)
    /\ perm = <<>>
    /\ combos = <<>>
    /\ itineraries = <<>>
    /\ unique_itineraries = {}
    /\ final_itineraries = <<>>
    /\ NoSum /\ NoFetch

(* fewer than two cities: df is never read *)
FewCitiesInit ==
    /\ airports \in {SubSeq(Cities, 1, n) : n \in 0..1}
    /\ df \in Tables(airport_combinations(SubSeq(Cities, 1, 2)), 1, Airlines, Prices)
    /\ min_city_time_minutes \in 0..MaxLayover
    /\ \E w \in Windows : earliest_departure = w[1] /\ latest_arrival = w[2]
    /\ Start

(* two cities: one leg per itinerary, every price and time window *)
TwoCityInit ==
    /\ airports = SubSeq(Cities, 1, 2)
    /\ df \in Tables(airport_combinations(airports), MaxRows, Airlines, Prices)
    /\ min_city_time_minutes \in {0, MaxLayover}
    /\ \E w \in Windows : earliest_departure = w[1] /\ latest_arrival = w[2]
    /\ Start

(* two cities, two carriers flying at the same times *)
CarrierInit ==
    /\ airports = SubSeq(Cities, 1, 2)
    /\ df \in Tables(airport_combinations(airports), MaxRows, {"X", "Y"}, {1})
    /\ min_city_time_minutes = 0
    /\ earliest_departure = None /\ latest_arrival = None
    /\ Start

(* three cities: two legs per itinerary, one fare *)
ThreeCityInit ==
    /\ airports = Cities
    /\ df \in Tables(airport_combinations(airports), MaxRows, Airlines, {1})
    /\ min_city_time_minutes \in 0..MaxLayover
    /\ \E w \in {<<None, None>>, <<Some(SecondsPerMinute), Some(3 * SecondsPerMinute)>>} :
           earliest_departure = w[1] /\ latest_arrival = w[2]
    /\ Start

(* three cities, two flights on each leg of the order A, B, C *)
FanInit ==
    /\ airports = Cities
    /\ \E ab \in [1..2 -> FlightsOn(<<"A", "B">>, Airlines, {1, MaxPrice})],
          bc \in [1..2 -> FlightsOn(<<"B", "C">>, Airlines, {1, MaxPrice})] : df = ab \o bc
    /\ min_city_time_minutes \in 0..MaxLayover
    /\ earliest_departure = None /\ latest_arrival = None
    /\ Start

(* the end-to-end scenario of the design: A->B $100 08:00-09:00,
   B->C $50 11:00-12:00, B->A $80, C->A $90, min layover 90, no window *)
ScenarioTimes == {Hm(5, 0), Hm(6, 30), Hm(6, 31), Hm(13, 29), Hm(13, 30), Hm(14, 30)}

ScenarioTable(ba, ca) ==
    << Flight("X", "A", "B", Hm(8, 0), Hm(9, 0), 100),
       Flight("X", "B", "A", ba[1], ba[2], 80),
       Flight("X", "B", "C", Hm(11, 0), Hm(12, 0), 50),
       Flight("X", "C", "A", ca[1], ca[2], 90) >>

ScenarioInit ==
    /\ airports = Cities
    /\ \E ba, ca \in {tt \in ScenarioTimes \X ScenarioTimes : tt[1] < tt[2]} :
           df = ScenarioTable(ba, ca)
    /\ min_city_time_minutes = 90
    /\ earliest_departure = None /\ latest_arrival = None
    /\ Start

(* ---- inputs of the validator alone: any legs, any window, any minimum ---- *)
Leg(i, dep, arr) ==
    Flight("X", Cities[((i - 1) % Len(Cities)) + 1], Cities[(i % Len(Cities)) + 1],
           dep, arr, 1)

Candidates ==
    UNION {{[i \in 1..n |-> Leg(i, tt[i][1], tt[i][2])] : tt \in [1..n -> Times \X Times]} :
              n \in 0..Len(Cities)}

OptionalTimes == {None} \cup {Some(t) : t \in Times}

(* the call of line 168 on one flight_combination that was not seen before *)
InitValid ==
    /\ airports = <<>> /\ df = <<>>
    /\ min_city_time_minutes \in 0..MaxLayover
    /\ earliest_departure \in OptionalTimes
    /\ latest_arrival \in OptionalTimes
    /\ pc = "product"
    /\ perms = <<>> /\ perm = <<>>
    /\ \E c \in Candidates : combos = <<c>>
    /\ itineraries = <<>>
    /\ unique_itineraries = {}
    /\ final_itineraries = <<>>
    /\ NoSum /\ NoFetch

Init == FewCitiesInit \/ TwoCityInit \/ CarrierInit \/ ThreeCityInit \/ FanInit
        \/ ScenarioInit

(* for perm in permutations(airports): collect the per-leg flight lists *)
current_itinerary_of(p) ==
    [i \in 1..(Len(p) - 1) |-> possible_flights(df, p[i], p[i + 1])]

(* valid stays True: no leg of the order has an empty possible_flights *)
Feasible(p) == \A i \in 1..(Len(p) - 1) :
                   possible_flights(df, p[i], p[i + 1]) # <<>>

(* lines 145-160, a city order with a flight on every leg *)
PermFeasible ==
    /\ pc = "perms" /\ perms # <<>>
    /\ Feasible(Head(perms))
    /\ perm' = Head(perms)
    /\ combos' = product(current_itinerary_of(Head(perms)))
    /\ perms' = Tail(perms)
    /\ pc' = "product"
    /\ UNCHANGED <<inputs, adder, provider, itineraries, unique_itineraries, final_itineraries>>

(* an order without flights ends the whole search *)
PermInfeasibleBreak ==
    /\ pc = "perms" /\ perms # <<>>
    /\ ~Feasible(Head(perms))
    /\ perm' = Head(perms)
    /\ perms' = <<>>
    /\ UNCHANGED <<inputs, adder, provider, pc, combos, itineraries, unique_itineraries, final_itineraries>>

(* lines 145-160, valid = False: the order is skipped *)
PermInfeasible ==
    /\ pc = "perms" /\ perms # <<>>
    /\ ~Feasible(Head(perms))
    /\ perm' = Head(perms)
    /\ perms' = Tail(perms)
    /\ UNCHANGED <<inputs, adder, provider, pc, combos, itineraries, unique_itineraries, final_itineraries>>

(* lines 161-172, one flight_combination of the product *)
Consider ==
    /\ pc = "product" /\ combos # <<>>
    /\ LET fc == Head(combos)
           total_price == total_price_of(fc)
           itinerary_id == itinerary_id_of(fc)
           verdict == is_valid_itinerary(fc, min_city_time_minutes,
                                         earliest_departure, latest_arrival)
       IN IF itinerary_id \in unique_itineraries
          THEN /\ combos' = Tail(combos)
               /\ UNCHANGED <<pc, itineraries, unique_itineraries>>
          ELSE /\ unique_itineraries' = unique_itineraries \cup {itinerary_id}
               /\ IF verdict = "IndexError"
                  THEN /\ pc' = "raised"
                       /\ UNCHANGED <<combos, itineraries>>
                  ELSE /\ combos' = Tail(combos)
                       /\ pc' = pc
                       /\ itineraries' =
                            IF verdict = "True"
                            THEN Append(itineraries,
                                   [flights |-> fc, total_price |-> total_price])
                            ELSE itineraries
    /\ UNCHANGED <<inputs, adder, provider, perms, perm, final_itineraries>>

(* the product of one order is exhausted: back to the permutation loop *)
ProductDone ==
    /\ pc = "product" /\ combos = <<>>
    /\ pc' = "perms"
    /\ UNCHANGED <<inputs, adder, provider, perms, perm, combos, itineraries, unique_itineraries, final_itineraries>>

(* lines 174-175 *)
Return ==
    /\ pc = "perms" /\ perms = <<>>
    /\ pc' = "returned"
    /\ final_itineraries' = itineraries
    /\ UNCHANGED <<inputs, adder, provider, perms, perm, combos, itineraries, unique_itineraries>>

(* main, lines 384-386 *)
Rank ==
    /\ pc = "returned" /\ final_itineraries # <<>>
    /\ final_itineraries' = sorted_by_price(final_itineraries)
    /\ pc' = "done"
    /\ UNCHANGED <<inputs, adder, provider, perms, perm, combos, itineraries, unique_itineraries>>

(* main, lines 418-419 *)
NoResults ==
    /\ pc = "returned" /\ final_itineraries = <<>>
    /\ pc' = "done"
    /\ UNCHANGED <<inputs, adder, provider, perms, perm, combos, itineraries, unique_itineraries, final_itineraries>>

Next == PermFeasible \/ PermInfeasible \/ Consider \/ ProductDone
        \/ Return \/ Rank \/ NoResults

Spec == Init /\ [][Next]_vars

NextValid == Consider

SpecValid == InitValid /\ [][NextValid]_vars

(* ---------- line 162 alone: one combination priced in cents ---------- *)
PricedLeg(i, cents) ==
    Flight("X", Cities[((i - 1) % Len(Cities)) + 1], Cities[(i % Len(Cities)) + 1],
           (2 * i - 2) * SecondsPerMinute, (2 * i - 1) * SecondsPerMinute,
           FloatOfCents(cents))

(* prices the provider can quote, in cents *)
Cents == {10 * k : k \in 1..MaxDimes} \cup {3325, 5400, 12050}

PricedCandidates ==
    UNION {{[i \in 1..n |-> PricedLeg(i, cc[i])] : cc \in [1..n -> Cents]} :
              n \in 1..Len(Cities)}

InitPrice ==
    /\ airports = <<>> /\ df = <<>>
    /\ min_city_time_minutes = 0
    /\ earliest_departure = None /\ latest_arrival = None
    /\ pc = "product"
    /\ perms = <<>> /\ perm = <<>>
    /\ \E fc \in PricedCandidates : combos = <<fc>>
    /\ itineraries = <<>>
    /\ unique_itineraries = {}
    /\ final_itineraries = <<>>
    /\ interpreter \in Interpreters
    /\ leg = 0 /\ acc = SumStart
    /\ NoFetch

(* line 162, one price taken by sum(...) *)
AddPrice ==
    /\ pc = "product" /\ combos # <<>>
    /\ leg < Len(Head(combos))
    /\ LET x == Head(combos)[leg + 1].price
       IN acc' = IF interpreter = "plain" \/ leg = 0
                 THEN plain_step(acc, x)
                 ELSE compensated_step(acc, x)
    /\ leg' = leg + 1
    /\ UNCHANGED <<inputs, provider, interpreter, pc, perms, perm, combos, itineraries,
                   unique_itineraries, final_itineraries>>

(* lines 162-172 once sum(...) has taken every price *)
ConsiderPriced ==
    /\ pc = "product" /\ combos # <<>>
    /\ leg = Len(Head(combos))
    /\ LET fc == Head(combos)
           total_price == sum_result(acc)
           itinerary_id == itinerary_id_of(fc)
           verdict == is_valid_itinerary(fc, min_city_time_minutes,
                                         earliest_departure, latest_arrival)
       IN IF itinerary_id \in unique_itineraries
          THEN /\ combos' = Tail(combos)
               /\ UNCHANGED <<pc, itineraries, unique_itineraries>>
          ELSE /\ unique_itineraries' = unique_itineraries \cup {itinerary_id}
               /\ IF verdict = "IndexError"
                  THEN /\ pc' = "raised"
                       /\ UNCHANGED <<combos, itineraries>>
                  ELSE /\ combos' = Tail(combos)
                       /\ pc' = pc
                       /\ itineraries' =
                            IF verdict = "True"
                            THEN Append(itineraries,
                                   [flights |-> fc, total_price |-> total_price])
                            ELSE itineraries
    /\ leg' = 0 /\ acc' = SumStart
    /\ UNCHANGED <<inputs, provider, interpreter, perms, perm, final_itineraries>>

NextPrice == AddPrice \/ ConsiderPriced

SpecPrice == InitPrice /\ [][NextPrice]_vars

(* ------------- get_flights_data alone, lines 19-64 ------------- *)
InitFetch ==
    /\ airports = <<>> /\ df = <<>>
    /\ min_city_time_minutes = 0
    /\ earliest_departure = None /\ latest_arrival = None
    /\ pc = "fetch"
    /\ perms = <<>> /\ perm = <<>> /\ combos = <<>>
    /\ itineraries = <<>>
    /\ unique_itineraries = {}
    /\ final_itineraries = <<>>
    /\ NoSum
    /\ max_retries \in (0..MaxRetries) \cup {DefaultMaxRetries}
    /\ fpc = "while" /\ attempt = 0
    /\ outcomes = <<>> /\ fetched = None

(* line 22, the test holds *)
EnterTry ==
    /\ fpc = "while" /\ attempt < max_retries
    /\ fpc' = "try"
    /\ UNCHANGED <<inputs, adder, pc, perms, perm, combos, itineraries,
                   unique_itineraries, final_itineraries,
                   max_retries, attempt, outcomes, fetched>>

(* lines 22 and 63-64, the test fails *)
LoopExit ==
    /\ fpc = "while" /\ ~(attempt < max_retries)
    /\ fetched' = Some(<<>>)
    /\ fpc' = "returned"
    /\ UNCHANGED <<inputs, adder, pc, perms, perm, combos, itineraries,
                   unique_itineraries, final_itineraries,
                   max_retries, attempt, outcomes>>

(* lines 23-44, get_flights returns a result *)
FetchSuccess ==
    /\ fpc = "try"
    /\ \E flights \in FlightLists :
          /\ outcomes' = Append(outcomes, Ok(flights))
          /\ fetched' = Some(flights)
    /\ fpc' = "returned"
    /\ UNCHANGED <<inputs, adder, pc, perms, perm, combos, itineraries,
                   unique_itineraries, final_itineraries, max_retries, attempt>>

(* lines 45-58, get_flights raises an error that line 50 lets retry *)
FetchRetryable ==
    /\ fpc = "try"
    /\ \E e \in Messages :
          /\ Retryable(e)
          /\ outcomes' = Append(outcomes, Raised(e))
    /\ attempt' = attempt + 1
    /\ IF attempt' < max_retries
       THEN fpc' = "while" /\ fetched' = fetched
       ELSE fpc' = "returned" /\ fetched' = Some(<<>>)
    /\ UNCHANGED <<inputs, adder, pc, perms, perm, combos, itineraries,
                   unique_itineraries, final_itineraries, max_retries>>

(* a handler that counts every error as a retry *)
FetchOtherRetried ==
    /\ fpc = "try"
    /\ \E e \in Messages :
          /\ ~Retryable(e)
          /\ outcomes' = Append(outcomes, Raised(e))
    /\ attempt' = attempt + 1
    /\ IF attempt' < max_retries
       THEN fpc' = "while" /\ fetched' = fetched
       ELSE fpc' = "returned" /\ fetched' = Some(<<>>)
    /\ UNCHANGED <<inputs, adder, pc, perms, perm, combos, itineraries,
                   unique_itineraries, final_itineraries, max_retries>>

(* lines 45-50 and 59-61, get_flights raises any other error *)
FetchOther ==
    /\ fpc = "try"
    /\ \E e \in Messages :
          /\ ~Retryable(e)
          /\ outcomes' = Append(outcomes, Raised(e))
    /\ fetched' = Some(<<>>)
    /\ fpc' = "returned"
    /\ UNCHANGED <<inputs, adder, pc, perms, perm, combos, itineraries,
                   unique_itineraries, final_itineraries, max_retries, attempt>>

NextFetch == EnterTry \/ LoopExit \/ FetchSuccess \/ FetchRetryable \/ FetchOther

(* the interpreter keeps running the call, and every call of get_flights and
   every time.sleep comes back *)
SpecFetch == InitFetch /\ [][NextFetch]_vars /\ WF_vars(NextFetch)

(* ====================== properties of the engine ====================== *)
(* every ordering of the requested cities *)
AllOrders ==
    {p \in [1..Len(airports) -> Range(airports)] :
        \A i, j \in 1..Len(airports) : p[i] = p[j] => i = j}

(* every leg combination that follows the city order p: one row of the
   table per consecutive city pair *)
CartesianSet(p) ==
    {c \in [1..(Len(p) - 1) -> Range(df)] :
        \A i \in 1..(Len(p) - 1) :
            c[i].origin = p[i] /\ c[i].destination = p[i + 1]}

AllCandidates == UNION {CartesianSet(p) : p \in AllOrders}

Passes(c) ==
    is_valid_itinerary(c, min_city_time_minutes, earliest_departure, latest_arrival) = "True"

RECURSIVE Total(_)
Total(c) == IF c = <<>> THEN 0 ELSE c[1].price + Total(Tail(c))

(* the canonical key of the design: (airline, origin, destination, departure,
   arrival) of each leg, in leg order *)
CanonicalKey(c) ==
    [i \in 1..Len(c) |->
        [airline |-> c[i].airline, origin |-> c[i].origin,
         destination |-> c[i].destination, departure |-> c[i].departure,
         arrival |-> c[i].arrival]]

(* layover between leg i and leg i+1 of c, in seconds *)
Gap(c, i) == c[i + 1].departure - c[i].arrival

(* C1: when the ranked result is not empty, no leg combination that follows a
   city order and passes the validator is cheaper than the first ranked
   itinerary, also with several fares for one flight. *)
C1_FirstIsCheapest ==
    (pc = "done" /\ final_itineraries # <<>>) =>
        \A c \in AllCandidates :
            Passes(c) => final_itineraries[1].total_price <= Total(c)

(* C2: every itinerary built on N distinct cities has N-1 legs that chain,
   and its first origin plus all destinations are the N cities, once each. *)
Visited(legs) ==
    IF legs = <<>> THEN <<>>
    ELSE <<legs[1].origin>> \o [i \in 1..Len(legs) |-> legs[i].destination]

C2_ChainThroughPermutation ==
    \A k \in 1..Len(itineraries) :
        LET legs == itineraries[k].flights
        IN /\ Len(legs) = Len(airports) - 1
           /\ \A i \in 1..(Len(legs) - 1) : legs[i].destination = legs[i + 1].origin
           /\ Range(Visited(legs)) = Range(airports)
           /\ Len(Visited(legs)) = Len(airports)

(* C3: at every point of a run, no two accepted itineraries have the same
   canonical key, also with duplicate rows and rows differing only in price. *)
C3_NoDuplicateKey ==
    \A i, j \in 1..Len(itineraries) :
        CanonicalKey(itineraries[i].flights) = CanonicalKey(itineraries[j].flights)
            => i = j

(* a second row of one flight, at another price, was met and an itinerary
   with that flight is in the list *)
C3_Witness ==
    /\ pc = "returned"
    /\ \E a, b \in 1..Len(df) :
          /\ a < b /\ df[a].price # df[b].price
          /\ CanonicalKey(<<df[a]>>) = CanonicalKey(<<df[b]>>)
          /\ \E k \in 1..Len(itineraries) : df[a] \in Range(itineraries[k].flights)

(* the step of line 168-172 accepted flight_combination c *)
Accepted(c) ==
    itineraries' = Append(itineraries, [flights |-> c, total_price |-> Total(c)])

Rejected == itineraries' = itineraries /\ pc' # "raised"

GapsAtLeastMinimum(c) ==
    \A i \in 1..(Len(c) - 1) : Gap(c, i) >= min_city_time_minutes * SecondsPerMinute

(* C4: with no time window, the validator accepts a candidate exactly when
   every consecutive leg pair has a gap of at least min_layover_minutes: one
   minute short on one pair rejects, the minimum itself on every pair passes. *)
C4_LayoverRule ==
    [][(pc = "product" /\ combos # <<>>
        /\ earliest_departure = None /\ latest_arrival = None)
       => IF GapsAtLeastMinimum(Head(combos))
          THEN Accepted(Head(combos)) ELSE Rejected]_vars

(* accepted with the minimum itself, a positive one, on each of two pairs *)
C4_Witness ==
    /\ earliest_departure = None /\ latest_arrival = None
    /\ min_city_time_minutes > 0
    /\ \E k \in 1..Len(itineraries) :
          LET c == itineraries[k].flights
          IN /\ Len(c) >= 3
             /\ \A i \in 1..(Len(c) - 1) :
                   Gap(c, i) = min_city_time_minutes * SecondsPerMinute

(* C5 as claimed: no itinerary of the result has a zero or negative layover,
   for every minimum from 0 up. *)
C5_ZeroOrNegativeLayoverRejected ==
    \A k \in 1..Len(itineraries) :
        \A i \in 1..(Len(itineraries[k].flights) - 1) :
            Gap(itineraries[k].flights, i) > 0

(* C5 amended: a negative layover is always turned down, a zero layover
   whenever the minimum is positive; neither is in the result. *)
BadLayover(c) ==
    \E i \in 1..(Len(c) - 1) :
        Gap(c, i) < 0 \/ (Gap(c, i) = 0 /\ min_city_time_minutes > 0)

C5_NegativeLayoverRejected ==
    /\ pc = "returned" => \A c \in AllCandidates : BadLayover(c) => ~Passes(c)
    /\ \A k \in 1..Len(itineraries) : ~BadLayover(itineraries[k].flights)

(* the run is over, it met a candidate with a negative layover inside the
   time window, and the result does not hold it *)
C5_Witness ==
    /\ pc = "returned"
    /\ \E c \in AllCandidates :
          /\ \E i \in 1..(Len(c) - 1) : Gap(c, i) < 0
          /\ earliest_departure = None /\ latest_arrival = None
          /\ itinerary_id_of(c) \in unique_itineraries
          /\ \A k \in 1..Len(itineraries) : itineraries[k].flights # c

(* C6: a set earliest_departure rejects every candidate whose first leg leaves
   before it, a set latest_arrival every candidate whose last leg lands after
   it, whatever the other legs do; a first departure at earliest_departure and
   a last arrival at latest_arrival pass, and no other leg is compared. *)
TooEarly(c) == earliest_departure # None /\ c[1].departure < earliest_departure[1]
TooLate(c) == latest_arrival # None /\ c[Len(c)].arrival > latest_arrival[1]

C6_WindowRule ==
    [][(pc = "product" /\ combos # <<>> /\ Head(combos) # <<>>)
       => LET c == Head(combos)
          IN IF TooEarly(c) \/ TooLate(c) THEN Rejected
             ELSE IF GapsAtLeastMinimum(c) THEN Accepted(c) ELSE Rejected]_vars

(* accepted with the first departure at earliest_departure and the last
   arrival at latest_arrival, while another leg lies outside the window *)
C6_Witness ==
    /\ earliest_departure # None /\ latest_arrival # None
    /\ \E k \in 1..Len(itineraries) :
          LET c == itineraries[k].flights
          IN /\ Len(c) >= 2
             /\ c[1].departure = earliest_departure[1]
             /\ c[Len(c)].arrival = latest_arrival[1]
             /\ \E i \in 1..Len(c) :
                   \/ i > 1 /\ c[i].departure < earliest_departure[1]
                   \/ i < Len(c) /\ c[i].arrival > latest_arrival[1]

(* C7: the candidates of a city order are the Cartesian product of its
   per-leg flight lists, in leg order; an order with a leg without flights
   gives none, and skipping it loses no candidate of any other order. *)
OrdersDone ==
    {p \in AllOrders : p \notin Range(perms) /\ ~(pc = "product" /\ p = perm)}

RECURSIVE ProductSize(_)
ProductSize(p) ==
    IF Len(p) < 2 THEN 1
    ELSE Cardinality({k \in 1..Len(df) : df[k].origin = p[1] /\ df[k].destination = p[2]})
            * ProductSize(Tail(p))

C7_NothingLost ==
    /\ pc \in {"perms", "returned"} =>
          \A p \in OrdersDone : \A c \in CartesianSet(p) :
              itinerary_id_of(c) \in unique_itineraries
    /\ pc = "product" =>
          /\ Range(combos) \subseteq CartesianSet(perm)
          /\ Len(combos) <= ProductSize(perm)
          /\ \A c \in CartesianSet(perm) :
                c \in Range(combos) \/ itinerary_id_of(c) \in unique_itineraries
    /\ pc \in {"perms", "returned"} =>
          unique_itineraries \subseteq
            {itinerary_id_of(c) : c \in UNION {CartesianSet(p) : p \in OrdersDone}}

C7_CartesianProductPerOrder ==
    /\ []C7_NothingLost
    /\ [][(pc = "perms" /\ perms # <<>>)
           => IF CartesianSet(Head(perms)) = {}
              THEN pc' = "perms" /\ unique_itineraries' = unique_itineraries
              ELSE /\ pc' = "product"
                   /\ Len(combos') = ProductSize(Head(perms))
                   /\ Range(combos') = CartesianSet(Head(perms))]_vars

(* the result holds an itinerary of an order that was enumerated after an
   order without flights and before another one *)
C7_Witness ==
    /\ pc = "done"
    /\ LET P == permutations(airports)
       IN \E i, j, k \in 1..Len(P) :
            /\ i < j /\ j < k
            /\ CartesianSet(P[i]) = {} /\ CartesianSet(P[k]) = {}
            /\ \E n \in 1..Len(itineraries) : itineraries[n].flights \in CartesianSet(P[j])

(* C8: with fewer than two cities the construction gives an empty result and
   raises nothing, for every table, minimum and time window. *)
C8_FewCitiesGiveNothing ==
    Len(airports) < 2 => (itineraries = <<>> /\ pc # "raised")

(* C9: the ranked result is ascending in total price, and itineraries of equal
   total price keep the order in which they were found: permutation order,
   then product order within a permutation. *)
PositionIn(seq, x) == CHOOSE k \in 1..Len(seq) : seq[k] = x

FirstRow(r) == CHOOSE k \in 1..Len(df) : df[k] = r /\ \A m \in 1..(k - 1) : df[m] # r

OrderIndex(c) ==
    LET P == permutations(airports)
    IN CHOOSE n \in 1..Len(P) : c \in CartesianSet(P[n])

(* c comes before d in the product of one order: the rightmost leg varies fastest *)
RowsBefore(c, d) ==
    \E i \in 1..Len(c) :
        /\ FirstRow(c[i]) < FirstRow(d[i])
        /\ \A m \in 1..(i - 1) : FirstRow(c[m]) = FirstRow(d[m])

FoundBefore(c, d) ==
    \/ OrderIndex(c) < OrderIndex(d)
    \/ OrderIndex(c) = OrderIndex(d) /\ RowsBefore(c, d)

C9_RankedAscendingStable ==
    pc = "done" =>
          /\ \A i, j \in 1..Len(itineraries) :
                i < j => FoundBefore(itineraries[i].flights, itineraries[j].flights)
          /\ Len(final_itineraries) = Len(itineraries)
          /\ Range(final_itineraries) = Range(itineraries)
          /\ \A i \in 1..(Len(final_itineraries) - 1) :
                final_itineraries[i].total_price <= final_itineraries[i + 1].total_price
          /\ \A i, j \in 1..Len(itineraries) :
                (i < j /\ itineraries[i].total_price = itineraries[j].total_price)
                    => PositionIn(final_itineraries, itineraries[i])
                         < PositionIn(final_itineraries, itineraries[j])

(* ranking moved a cheaper itinerary forward and met two of equal price *)
C9_Witness ==
    /\ pc = "done"
    /\ \E i, j \in 1..Len(itineraries) :
          i < j /\ itineraries[i].total_price = itineraries[j].total_price
    /\ \E i, j \in 1..Len(itineraries) :
          i < j /\ itineraries[i].total_price > itineraries[j].total_price

(* C10: the end-to-end scenario *)
IsScenario ==
    /\ airports = Cities /\ min_city_time_minutes = 90
    /\ earliest_departure = None /\ latest_arrival = None
    /\ Len(df) = 4
    /\ df[1] = Flight("X", "A", "B", Hm(8, 0), Hm(9, 0), 100)
    /\ df[3] = Flight("X", "B", "C", Hm(11, 0), Hm(12, 0), 50)
    /\ df[2].origin = "B" /\ df[2].destination = "A" /\ df[2].price = 80
    /\ df[4].origin = "C" /\ df[4].destination = "A" /\ df[4].price = 90

HasFlightOnEveryLeg(p) ==
    \A i \in 1..(Len(p) - 1) :
        \E k \in 1..Len(df) : df[k].origin = p[i] /\ df[k].destination = p[i + 1]

ScenarioItinerary == [flights |-> <<df[1], df[3]>>, total_price |-> 150]

(* C10 as claimed: A, B, C is the only order with a flight on every leg, and
   the ranked result is the single $150 itinerary whatever the other times. *)
C10_SoleResultWhateverTheTimes ==
    (IsScenario /\ pc = "done") =>
        /\ {p \in AllOrders : HasFlightOnEveryLeg(p)} = {<<"A", "B", "C">>}
        /\ final_itineraries = <<ScenarioItinerary>>

(* C10 amended: the orders A,B,C and B,C,A and C,A,B have a flight on every
   leg; the ranked result always holds the $150 itinerary, and nothing else
   exactly when the C->A flight leaves before 13:30 and lands after 06:30. *)
C10_SoleResultForTightReturn ==
    IsScenario =>
        /\ {p \in AllOrders : HasFlightOnEveryLeg(p)} =
              {<<"A", "B", "C">>, <<"B", "C", "A">>, <<"C", "A", "B">>}
        /\ pc = "done" =>
              /\ ScenarioItinerary \in Range(final_itineraries)
              /\ (final_itineraries = <<ScenarioItinerary>>)
                    <=> (df[4].departure < Hm(13, 30) /\ df[4].arrival > Hm(6, 30))

C10_Witness ==
    /\ IsScenario /\ pc = "done"
    /\ final_itineraries = <<ScenarioItinerary>>

(* ------------------------------------------------------------------ *)
(* C11: the total_price of every itinerary in the output is the exact sum
   of the price fields of its own legs, as decimal arithmetic gives it
   (0.10 + 0.20 is 0.30, not the nearest binary float of a rounded sum).  *)
C11_TotalIsExactSum ==
    \A i \in DOMAIN itineraries :
        itineraries[i].total_price = ExactSum(itineraries[i].flights)

(* ------------------------------------------------------------------ *)
AllRetryable(seq) ==
    \A i \in DOMAIN seq : seq[i].kind = "error" /\ Retryable(seq[i].message)

FetchRules ==
    /\ Len(outcomes) <= max_retries
    /\ AllRetryable(SubSeq(outcomes, 1, Len(outcomes) - 1))
    /\ fpc # "returned" => fetched = None /\ AllRetryable(outcomes)
    /\ (outcomes # <<>> /\ AllRetryable(outcomes) /\ Len(outcomes) = max_retries)
          => fpc = "returned"
    /\ fpc = "returned" =>
          IF outcomes = <<>> THEN max_retries = 0 /\ fetched = Some(<<>>)
          ELSE LET last == outcomes[Len(outcomes)]
               IN IF last.kind = "ok" THEN fetched = Some(last.flights)
                  ELSE /\ fetched = Some(<<>>)
                       /\ Retryable(last.message) => Len(outcomes) = max_retries

(* C12: whatever get_flights does at each call (a result, an error whose
   text holds "no token provided", "timeout" or "no flights found" in any
   case of letters, or any other error), get_flights_data calls it at most
   max_retries times and returns: the flights of the first call that gave a
   result, the empty list right after the first other error, the empty
   list after max_retries retryable errors; every call ends by returning.  *)
C12_FetchReturnsWithinMaxRetries == []FetchRules /\ <>(fpc = "returned")

C12_Witness ==
    /\ fpc = "returned" /\ Len(outcomes) = 3
    /\ outcomes[3].kind = "ok" /\ outcomes[3].flights # <<>>
    /\ fetched = Some(outcomes[3].flights)

====
